---- MODULE Spec2Model ----
(***************************************************************************)
(* MonitorJS (src/index.js): per-item sampling into a history buffer with  *)
(* derived statistics, and periodic evaluation of alert conditions.        *)
(*                                                                         *)
(* JavaScript values are modelled as records [t, n, d]:                    *)
(*   t = "num"  : the finite number n/d (d > 0, lowest terms); doubles are *)
(*                abstracted to exact rationals and -0 to 0                *)
(*   t = "inf"  : Infinity (n = 1) or -Infinity (n = -1)                   *)
(*   t = "nan"  : NaN                                                      *)
(*   t = "null" : null                                                     *)
(*   t = "bool" : true (n = 1) or false (n = 0)                            *)
(***************************************************************************)
EXTENDS Integers, Sequences, FiniteSets, TLC

VARIABLES
    items,        \* this.items: item name -> validated configuration, alerts by name
    db,           \* this.db: item name -> statistics record
    intervalIds,  \* this.intervalIds: key -> what setInterval returned
    timers,       \* the live interval timers of the runtime
    pendingSet,   \* item name -> the set() calls suspended at the await, in the
                  \* order they were started; each is the setter call it awaits
    pendingCb,    \* the check() calls suspended at the await of a callback
    recorded,     \* history: item name -> the values set() has recorded in the
                  \* stored statistics record, in order
    lastEval,     \* history: the evaluation made by the last step, if it was a
                  \* check(); every other step resets it to NoEval
    done,         \* history: the suspended check() calls that have completed, in
                  \* the order of their completion
    process,      \* "running" while the engine's process lives, "exited" once the
                  \* runtime has ended it, "none" when the constructor threw
    lastCall      \* history: the call of the constructor, get or timeConverter
                  \* made by the last step, if any

vars == <<items, db, intervalIds, timers, pendingSet, pendingCb, recorded,
          lastEval, done, process, lastCall>>

(***************************************************************************)
(* Bounds of the model.                                                    *)
(***************************************************************************)
\* sampling invocations started over all items (in flight or completed)
MaxSamples == 4

\* callbacks that suspend, invoked over all items (in flight or completed)
MaxCalls == 2

\* calls of a setter that never returns, in flight for one item; further ones
\* would change nothing that can be observed
MaxHung == 2

\* decimal digits of the longest duration converted on its own
MaxDigits == 2

(***************************************************************************)
(* JavaScript numbers and values.                                          *)
(***************************************************************************)
Abs(x) == IF x < 0 THEN -x ELSE x

RECURSIVE GCD(_, _)
GCD(a, b) == IF b = 0 THEN a ELSE GCD(b, a % b)

Null == [t |-> "null", n |-> 0, d |-> 1]
NaN == [t |-> "nan", n |-> 0, d |-> 1]
Inf(s) == [t |-> "inf", n |-> s, d |-> 1]
Bool(b) == [t |-> "bool", n |-> IF b THEN 1 ELSE 0, d |-> 1]

\* the finite number n/d, d # 0, in lowest terms with a positive denominator
Frac(n, d) ==
    LET g == GCD(Abs(n), Abs(d))
        s == IF d < 0 THEN -1 ELSE 1
    IN  [t |-> "num", n |-> (s * n) \div g, d |-> (s * d) \div g]

Num(n) == Frac(n, 1)

Sign(v) == IF v.n > 0 THEN 1 ELSE IF v.n < 0 THEN -1 ELSE 0

\* ToNumber: null -> 0, false -> 0, true -> 1
ToNumber(v) == IF v.t \in {"null", "bool"} THEN Num(v.n) ELSE v

\* a + b on numbers
JsAdd(a, b) ==
    LET x == ToNumber(a)
        y == ToNumber(b)
    IN  IF x.t = "nan" \/ y.t = "nan" THEN NaN
        ELSE IF x.t = "inf" /\ y.t = "inf" THEN (IF x.n = y.n THEN x ELSE NaN)
        ELSE IF x.t = "inf" THEN x
        ELSE IF y.t = "inf" THEN y
        ELSE Frac(x.n * y.d + y.n * x.d, x.d * y.d)

\* a / b
JsDiv(a, b) ==
    LET x == ToNumber(a)
        y == ToNumber(b)
    IN  IF x.t = "nan" \/ y.t = "nan" THEN NaN
        ELSE IF x.t = "inf" /\ y.t = "inf" THEN NaN
        ELSE IF x.t = "inf" THEN Inf(IF Sign(y) < 0 THEN -x.n ELSE x.n)
        ELSE IF y.t = "inf" THEN Num(0)
        ELSE IF y.n = 0 THEN (IF x.n = 0 THEN NaN ELSE Inf(Sign(x)))
        ELSE Frac(x.n * y.d, x.d * y.n)

\* a * b
JsMul(a, b) ==
    LET x == ToNumber(a)
        y == ToNumber(b)
    IN  IF x.t = "nan" \/ y.t = "nan" THEN NaN
        ELSE IF x.t = "inf" \/ y.t = "inf"
             THEN (IF Sign(x) * Sign(y) = 0 THEN NaN ELSE Inf(Sign(x) * Sign(y)))
        ELSE Frac(x.n * y.n, x.d * y.d)

\* a === b (no coercion; NaN equals nothing)
JsStrictEq(a, b) == a.t = b.t /\ a.t # "nan" /\ a = b

\* a < b (both operands coerced with ToNumber; false when either is NaN)
JsLess(a, b) ==
    LET x == ToNumber(a)
        y == ToNumber(b)
    IN  IF x.t = "nan" \/ y.t = "nan" THEN FALSE
        ELSE IF x.t = "inf" THEN x.n < 0 /\ ~(y.t = "inf" /\ y.n < 0)
        ELSE IF y.t = "inf" THEN y.n > 0
        ELSE x.n * y.d < y.n * x.d

\* a > b
JsGreater(a, b) == JsLess(b, a)

\* mutant: the test written as fire === true
Truthy_StrictTrue(v) == v = Bool(TRUE)

\* truthiness of a value, as tested by if (fire)
Truthy(v) ==
    CASE v.t = "null" -> FALSE
      [] v.t = "nan"  -> FALSE
      [] v.t = "bool" -> v.n = 1
      [] v.t = "num"  -> v.n # 0
      [] v.t = "inf"  -> TRUE

(***************************************************************************)
(* The engine's tables and the constructor's input.                        *)
(***************************************************************************)
\* conditions: condition kind -> the scalar it reads and the operator
conditions ==
    [equal         |-> [field |-> "now",    op |-> "==="],
     more          |-> [field |-> "now",    op |-> ">"],
     less          |-> [field |-> "now",    op |-> "<"],
     equal_pct     |-> [field |-> "nowPct", op |-> "==="],
     more_pct      |-> [field |-> "nowPct", op |-> ">"],
     less_pct      |-> [field |-> "nowPct", op |-> "<"],
     equal_avg     |-> [field |-> "avg",    op |-> "==="],
     more_avg      |-> [field |-> "avg",    op |-> ">"],
     less_avg      |-> [field |-> "avg",    op |-> "<"],
     equal_avg_pct |-> [field |-> "avgPct", op |-> "==="],
     more_avg_pct  |-> [field |-> "avgPct", op |-> ">"],
     less_avg_pct  |-> [field |-> "avgPct", op |-> "<"]]

\* defaults of itemSchema
DefaultInterval == 1000
DefaultMax == 100
DefaultMin == 0
DefaultBufferSize == 200

\* a condition given by name, and one given as a predicate function
Kind(k) == [type |-> "string", v |-> k]
Pred(p) == [type |-> "function", v |-> p]

\* a duration string such as "10_s": its text and the parts split("_") gives
Time(text, digits, mark) == [text |-> text, digits |-> digits, mark |-> mark]

Alert(name, condition, value) ==
    [name |-> name, condition |-> condition, value |-> Num(value), function |-> "log"]

\* an alert with the callback named
AlertWith(name, condition, value, function) ==
    [Alert(name, condition, value) EXCEPT !.function = function]

\* an alert that carries a times list of its own
AlertTimed(name, condition, value, times) ==
    [name |-> name, condition |-> condition, value |-> Num(value),
     function |-> "log", times |-> times]

\* the values a sampling function may yield (the functions are the caller's)
SetterYields(setter) ==
    CASE setter = "getCPUUsage"  -> {10, 20, 30, 40}
      [] setter = "getRAMUsage"  -> {0, 75}
      [] setter = "getSwapUsage" -> {60}
      [] setter = "getDiskUsage" -> {5}
      [] setter = "readTemp"     -> {25, 75}
      [] setter = "flaky"        -> {5}
      [] setter = "hangs"        -> {}

\* the setters that keep a count of their calls: readTemp yields 25 at its
\* first call and 75 at every later one
Scripted == {"readTemp"}

\* the call a set() makes: the setter and, for a scripted one, which call it is
SetterCall(setter, k) ==
    [setter |-> setter, call |-> IF setter \in Scripted THEN k ELSE 0]

\* the values the promise of a setter call may resolve to
CallYields(call) ==
    IF call.setter = "readTemp"
    THEN {IF call.call = 1 THEN 25 ELSE 75}
    ELSE SetterYields(call.setter)

\* whether the promise of a setter call may reject: flaky is
\* async () => { if (down()) throw new Error("down"); return 5 }
CallFails(setterCall) == setterCall.setter = "flaky"

\* whether the promise of a setter call is never settled
CallHangs(setterCall) == CallYields(setterCall) = {} /\ ~CallFails(setterCall)

\* whether a custom predicate throws: db => db.history.length > 2
PredThrows(p) == p = "throws"

\* the result of a custom predicate applied to a statistics record
PredApply(p, stats) ==
    CASE p = "bufferLong" -> Bool(Len(stats.buffer) > 2)   \* db => db.buffer.length > 2
      [] p = "nowValue"   -> stats.now                      \* db => db.now

BuiltinKinds == DOMAIN conditions

\* comparison values of the alerts of the first item, whose setter yields
\* 10..40 with max 200: each is met, exceeded and missed by some sample
CpuValue(kind) == IF conditions[kind].field \in {"now", "avg"} THEN 20 ELSE 10

\* comparison values of the alerts of the second item, whose setter yields 0
\* or 75
RamValue(kind) ==
    CASE conditions[kind].op = "===" -> 0
      [] conditions[kind].op = ">"   -> -1
      [] conditions[kind].op = "<"   -> 50

CpuItem(alerts) ==
    [name |-> "cpu_usage", setter |-> "getCPUUsage", interval |-> 250,
     alerts |-> alerts, times |-> <<Time("10_s", <<1, 0>>, "s")>>,
     max |-> 200, min |-> 0, bufferSize |-> 3]

\* an item sampled from getRAMUsage, alone in its engine
RamItem(alerts) ==
    [name |-> "ram_usage", setter |-> "getRAMUsage", interval |-> 500,
     alerts |-> alerts, times |-> <<Time("5_s", <<5>>, "s")>>,
     max |-> 100, min |-> 0, bufferSize |-> 2]

\* the end-to-end scenario: samples 25 then 75 against the threshold 50
TempInput ==
    << [name |-> "temp", setter |-> "readTemp",
        alerts |-> <<Alert("hi", Kind("more"), 50)>>,
        times |-> <<Time("1_s", <<1>>, "s")>>,
        max |-> 100, bufferSize |-> 10] >>

\* configurations whose callbacks change or replace the engine's records
CallbackInputs ==
    { \* the callback raises the threshold in place (README, examples 3 and 4)
      << CpuItem(<<AlertWith("hot", Kind("more"), 20, "raise")>>) >>,
      \* two alerts whose callbacks each return a replacement statistics record
      << RamItem(<<AlertWith("reset", Kind("more"), 50, "resetStats"),
                   AlertWith("trim", Kind("more_avg"), 30, "trimStats")>>) >>,
      \* a callback returning a replacement item, one returning a replacement
      \* alert
      << RamItem(<<AlertWith("swap", Kind("more"), 50, "swapItem"),
                   AlertWith("tune", Kind("less"), 50, "tuneAlert")>>) >>,
      \* a callback that suspends and returns nothing, one that returns an
      \* alert configuration without a callback
      << RamItem(<<AlertWith("notify", Kind("more"), 50, "notify"),
                   AlertWith("mute", Kind("more"), 50, "muteAlert")>>) >> }

\* an item evaluated at three periods whose alerts carry times of their own,
\* and an item that gives no times but whose alert does
ScheduleInput ==
    << [name |-> "disk", setter |-> "getDiskUsage", interval |-> 2000,
        alerts |-> <<AlertTimed("full", Kind("more"), 1,
                                <<Time("7_s", <<7>>, "s")>>),
                     AlertTimed("empty", Kind("less"), 1, <<>>)>>,
        times |-> <<Time("30_s", <<3, 0>>, "s"), Time("1_m", <<1>>, "m"),
                    Time("2_h", <<2>>, "h")>>],
       [name |-> "net", setter |-> "getDiskUsage",
        alerts |-> <<AlertTimed("busy", Kind("more"), 1,
                                <<Time("3_s", <<3>>, "s")>>)>>] >>

\* the item configurations handed to the constructor: one alert of each
\* built-in kind on both items (the second item with max 0), or alerts with
\* custom predicates (the second item with the default max and bufferSize),
\* or one of the configurations above
Inputs ==
    { << CpuItem(<<Alert(k, Kind(k), CpuValue(k))>>),
         [name |-> "ram_usage", setter |-> "getRAMUsage", interval |-> 500,
          alerts |-> <<Alert(k, Kind(k), RamValue(k))>>,
          times |-> <<Time("5_s", <<5>>, "s")>>,
          max |-> 0, bufferSize |-> 1] >> : k \in BuiltinKinds }
    \cup
    { << CpuItem(<<Alert("long", Pred("bufferLong"), 20),
                   Alert("long2", Pred("bufferLong"), 0)>>),
         [name |-> "ram_usage", setter |-> "getRAMUsage",
          alerts |-> <<Alert("any", Pred("nowValue"), 50)>>,
          times |-> <<Time("5_s", <<5>>, "s")>>] >> }
    \cup CallbackInputs
    \cup {TempInput, ScheduleInput}

(***************************************************************************)
(* constructor                                                             *)
(***************************************************************************)
Default(r, f, dflt) == IF f \in DOMAIN r THEN r[f] ELSE dflt

\* the values of the model that are functions (typeof value === "function")
Functions ==
    {"getCPUUsage", "getRAMUsage", "getSwapUsage", "getDiskUsage", "readTemp",
     "hangs", "flaky",
     "log", "raise", "resetStats", "trimStats", "swapItem", "tuneAlert",
     "notify", "muteAlert", "pruneItem", "rejects", "swapAndTune",
     "renew"}

\* timeSchema: /^\d+_[smh]$/
ValidTime(time) == time.digits # <<>> /\ time.mark \in {"s", "m", "h"}

\* alertSchema: name, condition, value and function are required
ValidAlert(alert) ==
    /\ {"name", "condition", "value", "function"} \subseteq DOMAIN alert
    /\ \/ alert.condition.type = "string" /\ alert.condition.v \in DOMAIN conditions
       \/ alert.condition.type = "function"
    /\ alert.function \in Functions
    /\ "times" \in DOMAIN alert => \A k \in DOMAIN alert.times : ValidTime(alert.times[k])

\* itemSchema: name and setter are required
ValidItem(item) ==
    /\ {"name", "setter"} \subseteq DOMAIN item
    /\ item.setter \in Functions
    /\ "alerts" \in DOMAIN item => \A k \in DOMAIN item.alerts : ValidAlert(item.alerts[k])
    /\ "times" \in DOMAIN item => \A k \in DOMAIN item.times : ValidTime(item.times[k])

\* mutant: only the first item is validated
ConstructorThrows_FirstItem(input) ==
    input # <<>> /\ (~ValidItem(input[1]) \/ "alerts" \notin DOMAIN input[1])

\* the constructor's loop throws: at the first item that fails validation, or at
\* the for...of over the default {} of an item that gives no alerts
ConstructorThrows(input) ==
    \E k \in DOMAIN input : ~ValidItem(input[k]) \/ "alerts" \notin DOMAIN input[k]

\* itemSchema.validate: the value with the schema's defaults filled in (every
\* configuration in Inputs gives name, setter and alerts)
Validate(item) ==
    [name       |-> item.name,
     setter     |-> item.setter,
     interval   |-> Default(item, "interval", DefaultInterval),
     alerts     |-> item.alerts,
     times      |-> Default(item, "times", <<>>),
     max        |-> Default(item, "max", DefaultMax),
     min        |-> Default(item, "min", DefaultMin),
     bufferSize |-> Default(item, "bufferSize", DefaultBufferSize)]

\* the last index of seq whose element carries the name
LastNamed(seq, name) ==
    CHOOSE k \in DOMAIN seq :
        /\ seq[k].name = name
        /\ \A j \in DOMAIN seq : seq[j].name = name => j <= k

\* alerts[alert.name] = alert, in order
AlertsByName(alerts) ==
    [a \in {alerts[k].name : k \in DOMAIN alerts} |-> alerts[LastNamed(alerts, a)]]

\* this.items after the constructor's loop
ConstructItems(input) ==
    [i \in {input[k].name : k \in DOMAIN input} |->
        LET value == Validate(input[LastNamed(input, i)])
        IN  [value EXCEPT !.alerts = AlertsByName(value.alerts)]]

\* mutant: the running sum initialised to 0 instead of null
InitialStats_ZeroSum(value) ==
    [buffer     |-> <<>>,
     bufferSize |-> value.bufferSize,
     max        |-> value.max,
     min        |-> value.min,
     avg        |-> Null,
     avgPct     |-> Null,
     now        |-> Null,
     nowPct     |-> Null,
     sum        |-> Num(0)]

\* mutant: the record created with the schema's default limits, whatever the
\* item configures
InitialStats_DefaultLimits(value) ==
    [buffer     |-> <<>>,
     bufferSize |-> DefaultBufferSize,
     max        |-> DefaultMax,
     min        |-> DefaultMin,
     avg        |-> Null,
     avgPct     |-> Null,
     now        |-> Null,
     nowPct     |-> Null,
     sum        |-> Null]

\* this.db[value.name] as the constructor creates it
InitialStats(value) ==
    [buffer     |-> <<>>,
     bufferSize |-> value.bufferSize,
     max        |-> value.max,
     min        |-> value.min,
     avg        |-> Null,
     avgPct     |-> Null,
     now        |-> Null,
     nowPct     |-> Null,
     sum        |-> Null]

ConstructDb(input) ==
    [i \in {input[k].name : k \in DOMAIN input} |->
        InitialStats(Validate(input[LastNamed(input, i)]))]

\* no evaluation: nothing was read and no callback received anything
NoEval == [item |-> "", alert |-> "", outcome |-> "none", read |-> <<>>, args |-> <<>>]

\* no call of the constructor, get or timeConverter
NoCall == [op |-> "", arg |-> <<>>, result |-> <<>>]

\* new MonitorJS(input): the engine, or no engine when the constructor threw
Constructed(input) ==
    IF ConstructorThrows(input)
    THEN /\ process = "none"
         /\ lastCall = [op |-> "new", arg |-> input, result |-> "Error"]
         /\ items = <<>>
         /\ db = <<>>
         /\ pendingSet = <<>>
         /\ recorded = <<>>
    ELSE /\ process = "running"
         /\ lastCall = [op |-> "new", arg |-> input, result |-> "MonitorJS"]
         /\ items = ConstructItems(input)
         /\ db = ConstructDb(input)
         /\ pendingSet = [i \in DOMAIN ConstructItems(input) |-> <<>>]
         /\ recorded = [i \in DOMAIN ConstructItems(input) |-> <<>>]

\* the state in which new MonitorJS(input) leaves the program
InitWith(input) ==
    /\ Constructed(input)
    /\ intervalIds = <<>>
    /\ timers = {}
    /\ pendingCb = {}
    /\ done = <<>>
    /\ lastEval = NoEval

Init == \E input \in Inputs : InitWith(input)

(***************************************************************************)
(* get                                                                     *)
(***************************************************************************)
\* mutant: an item that has not been sampled yet is reported as absent
get_OnlyWhenSampled(itemName) ==
    IF itemName \in DOMAIN db /\ db[itemName].now # Null
    THEN db[itemName] ELSE [t |-> "undefined", n |-> 0, d |-> 1]

get(itemName) ==
    IF itemName \in DOMAIN db THEN db[itemName] ELSE [t |-> "undefined", n |-> 0, d |-> 1]

(***************************************************************************)
(* timeConverter                                                           *)
(***************************************************************************)
\* Number(value) for a string of decimal digits
RECURSIVE DigitsToNumber(_)
DigitsToNumber(digits) ==
    IF digits = <<>> THEN 0
    ELSE 10 * DigitsToNumber(SubSeq(digits, 1, Len(digits) - 1)) + digits[Len(digits)]

\* mutant: a unit that is none of s, m, h taken as seconds
timeConverter_UnknownAsSeconds(time) ==
    DigitsToNumber(time.digits) *
       (CASE time.mark = "h" -> 60 * 60 * 1000
          [] time.mark = "m" -> 60 * 1000
          [] OTHER           -> 1000)

\* mutant: hours converted as minutes
timeConverter_HoursAsMinutes(time) ==
    DigitsToNumber(time.digits) * (IF time.mark = "s" THEN 1000 ELSE 60 * 1000)

timeConverter(time) ==
    LET value == DigitsToNumber(time.digits)
        mark == time.mark
        h == IF mark = "h" THEN value * (60 * 60 * 1000) ELSE 0
        m == IF mark = "m" THEN value * (60 * 1000) ELSE h
    IN  IF mark = "s" THEN value * 1000 ELSE m

(***************************************************************************)
(* set: the statistics record after recording newValue                     *)
(***************************************************************************)
\* buffer.reduce((sum, value) => sum + value, 0)
RECURSIVE Reduce(_)
Reduce(buffer) ==
    IF buffer = <<>> THEN Num(0)
    ELSE JsAdd(Reduce(SubSeq(buffer, 1, Len(buffer) - 1)), buffer[Len(buffer)])

\* mutant: the previous now pushed also when it is the initial null
PushSample_PushesNull(stats, newValue) ==
    LET shifted == IF stats.bufferSize < Len(stats.buffer)
                   THEN Tail(stats.buffer) ELSE stats.buffer
    IN  Append(Append(shifted, stats.now), newValue)

\* the buffer after the size check, the push of the previous now and the push
\* of the new value
PushSample(stats, newValue) ==
    LET shifted == IF stats.bufferSize < Len(stats.buffer)
                   THEN Tail(stats.buffer) ELSE stats.buffer
        withPrev == IF stats.now # Null
                    THEN Append(shifted, stats.now) ELSE shifted
    IN  Append(withPrev, newValue)

\* mutant: the mean taken over bufferSize instead of the buffer's length
Analyze_DivByCapacity(stats) ==
    LET sum == Reduce(stats.buffer)
        avg == JsDiv(sum, Num(stats.bufferSize))
    IN  [stats EXCEPT !.sum = sum,
                      !.avg = avg,
                      !.avgPct = JsMul(JsDiv(avg, Num(stats.max)), Num(100)),
                      !.nowPct = JsMul(JsDiv(stats.now, Num(stats.max)), Num(100))]

\* mutant: avgPct computed from now instead of avg
Analyze_PctOfNow(stats) ==
    LET sum == Reduce(stats.buffer)
        avg == JsDiv(sum, Num(Len(stats.buffer)))
    IN  [stats EXCEPT !.sum = sum,
                      !.avg = avg,
                      !.avgPct = JsMul(JsDiv(stats.now, Num(stats.max)), Num(100)),
                      !.nowPct = JsMul(JsDiv(stats.now, Num(stats.max)), Num(100))]

\* sum, avg, avgPct and nowPct of a record whose buffer and now are set
Analyze(stats) ==
    LET sum == Reduce(stats.buffer)
        avg == JsDiv(sum, Num(Len(stats.buffer)))
    IN  [stats EXCEPT !.sum = sum,
                      !.avg = avg,
                      !.avgPct = JsMul(JsDiv(avg, Num(stats.max)), Num(100)),
                      !.nowPct = JsMul(JsDiv(stats.now, Num(stats.max)), Num(100))]

Record(stats, newValue) ==
    Analyze([stats EXCEPT !.buffer = PushSample(stats, newValue),
                          !.now = newValue])

(***************************************************************************)
(* check: the verdict on a statistics record                               *)
(***************************************************************************)
\* mutant: > written as >=
Compare_Inclusive(op, scalar, value) ==
    CASE op = "===" -> JsStrictEq(scalar, value)
      [] op = ">"   -> JsGreater(scalar, value) \/ JsStrictEq(scalar, value)
      [] op = "<"   -> JsLess(scalar, value)

\* the comparison the eval'd text `this.db[itemName].<field> <op> alert.value` makes
Compare(op, scalar, value) ==
    CASE op = "===" -> JsStrictEq(scalar, value)
      [] op = ">"   -> JsGreater(scalar, value)
      [] op = "<"   -> JsLess(scalar, value)

\* the value assigned to fire
Evaluate(stats, alert) ==
    IF alert.condition.type = "string"
    THEN LET c == conditions[alert.condition.v]
         IN  Bool(Compare(c.op, stats[c.field], alert.value))
    ELSE PredApply(alert.condition.v, stats)

(***************************************************************************)
(* check: the callbacks (the caller's functions) and what check does with  *)
(* the value one returns.  Every record a callback returns is a fresh      *)
(* object literal, so it shares nothing with the records of the engine.    *)
(***************************************************************************)
Undefined == [t |-> "undefined", n |-> 0, d |-> 1]

\* { buffer: [], bufferSize: 1, max: 50, min: 0, avg: null, ... }
ResetStats == InitialStats([bufferSize |-> 1, max |-> 50, min |-> 0])

\* { buffer: [75], bufferSize: 2, max: 100, min: 0, now: 75, sum: 75, ... }
TrimStats ==
    Record(InitialStats([bufferSize |-> 2, max |-> 100, min |-> 0]), Num(75))

\* the item with another sampling function and a callback that only logs
SwappedItem ==
    [name |-> "ram_usage", setter |-> "getSwapUsage", interval |-> 500,
     alerts |-> [swap |-> Alert("swap", Kind("more"), 50),
                 tune |-> AlertWith("tune", Kind("less"), 50, "tuneAlert")],
     times |-> <<Time("5_s", <<5>>, "s")>>,
     max |-> 100, min |-> 0, bufferSize |-> 2]

\* the item with only its first alert left, and that one only logging
PrunedItem ==
    [name |-> "ram_usage", setter |-> "getRAMUsage", interval |-> 500,
     alerts |-> [prune |-> Alert("prune", Kind("more"), 50)],
     times |-> <<Time("5_s", <<5>>, "s")>>,
     max |-> 100, min |-> 0, bufferSize |-> 2]

\* the item and the alert that one callback returns together: the item with
\* another sampling function, carrying the alert with its threshold at 50, and
\* the alert with its threshold at 70
BothItem ==
    [name |-> "ram_usage", setter |-> "getSwapUsage", interval |-> 500,
     alerts |-> [both |-> Alert("both", Kind("more"), 50),
                 low |-> Alert("low", Kind("less"), 50)],
     times |-> <<Time("5_s", <<5>>, "s")>>,
     max |-> 100, min |-> 0, bufferSize |-> 2]

BothAlert == Alert("both", Kind("more"), 70)

\* the item that the callback renew returns together with a pristine
\* statistics record: another sampling function, and the alert only logging
RenewedItem ==
    [name |-> "ram_usage", setter |-> "getSwapUsage", interval |-> 500,
     alerts |-> [renew |-> Alert("renew", Kind("more"), 90)],
     times |-> <<Time("5_s", <<5>>, "s")>>,
     max |-> 100, min |-> 0, bufferSize |-> 2]

\* the alert with a lower threshold and a callback that only logs
TunedAlert == Alert("tune", Kind("less"), 10)

\* { name: "mute", condition: "more", value: 50 }
MutedAlert == [name |-> "mute", condition |-> Kind("more"), value |-> Num(50)]

\* mutant: the callback handed a copy, so that its change is lost
CallbackMutates_Copy(function, alert) == alert

\* the alert configuration after the part of the callback that runs inside
\* the call: raise is  async (db, item, alert) => { alert.value += 10 }
CallbackMutates(function, alert) ==
    IF function = "raise"
    THEN [alert EXCEPT !.value = JsAdd(@, Num(10))]
    ELSE alert

\* whether the callback awaits something (I/O, a timer) before it returns
CallbackSuspends(function) ==
    function \in {"resetStats", "trimStats", "swapItem", "tuneAlert", "notify",
                  "pruneItem", "swapAndTune", "renew"}

\* whether the callback throws: async () => { throw new Error("no mail") }
CallbackRejects(function) == function = "rejects"

\* the value the callback's promise resolves to
CallbackReturns(function) ==
    CASE function = "resetStats" -> [db |-> ResetStats]
      [] function = "trimStats"  -> [db |-> TrimStats]
      [] function = "swapItem"   -> [item |-> SwappedItem]
      [] function = "tuneAlert"  -> [alertObject |-> TunedAlert]
      [] function = "muteAlert"  -> [alertObject |-> MutedAlert]
      [] function = "pruneItem"  -> [item |-> PrunedItem]
      [] function = "swapAndTune" -> [item |-> BothItem, alertObject |-> BothAlert]
      [] function = "renew"      -> [db |-> ResetStats, item |-> RenewedItem]
      [] OTHER                   -> Undefined

\* mutant: the callback handed a record as the constructor made it
CallArgs_Pristine(itemName, alertName) ==
    <<InitialStats(items[itemName]), items[itemName],
      items[itemName].alerts[alertName]>>

\* the arguments of alert.function(...)
CallArgs(itemName, alertName) ==
    <<db[itemName], items[itemName], items[itemName].alerts[alertName]>>

\* mutant: the callback called whatever the verdict
Invokes_Always(fire) == TRUE

\* whether the callback is called once the verdict is fire
Invokes(fire) == fire

\* (await ...) || {}
OrEmpty(ret) == IF ret = Undefined THEN <<>> ELSE ret

\* map[key] = value
Put(map, key, value) ==
    [k \in DOMAIN map \cup {key} |-> IF k = key THEN value ELSE map[k]]

\* mutant: the returned record merged into the stored one, which keeps its
\* limits
ApplyDb_KeepLimits(ret, itemName, stored) ==
    IF "db" \in DOMAIN ret
    THEN [stored EXCEPT ![itemName] =
            [ret.db EXCEPT !.bufferSize = stored[itemName].bufferSize,
                           !.max = stored[itemName].max]]
    ELSE stored

\* mutant: only the buffer of the returned record is stored
ApplyDb_BufferOnly(ret, itemName, stored) ==
    IF "db" \in DOMAIN ret
    THEN [stored EXCEPT ![itemName].buffer = ret.db.buffer]
    ELSE stored

\* mutant: a return value without db clears the stored record
ApplyDb_ResetsWhenAbsent(ret, itemName, stored) ==
    [stored EXCEPT ![itemName] = IF "db" \in DOMAIN ret THEN ret.db ELSE ResetStats]

\* mutant: the returned record stored for every item
ApplyDb_EveryItem(ret, itemName, stored) ==
    IF "db" \in DOMAIN ret
    THEN [i \in DOMAIN stored |-> ret.db]
    ELSE stored

\* mutant: the returned record stored with the now of the record it replaces
ApplyDb_KeepsNow(ret, itemName, stored) ==
    IF "db" \in DOMAIN ret
    THEN [stored EXCEPT ![itemName] = [ret.db EXCEPT !.now = stored[itemName].now]]
    ELSE stored

\* if (db) this.db[itemName] = db
ApplyDb(ret, itemName, stored) ==
    IF "db" \in DOMAIN ret
    THEN [stored EXCEPT ![itemName] = ret.db]
    ELSE stored

\* the samples a returned statistics record stands for: none, or its now
SamplesOf(stats) == IF stats.now = Null THEN <<>> ELSE <<stats.now.n>>

\* the history of the stored record once the returned value is applied
HistoryAfter(ret, itemName, history) ==
    IF "db" \in DOMAIN ret
    THEN [history EXCEPT ![itemName] = SamplesOf(ret.db)]
    ELSE history

\* mutant: the alert stored first, then the item over it
ApplyItems_AlertFirst(ret, itemName, alertName, stored) ==
    LET withAlert == IF "alertObject" \in DOMAIN ret
                     THEN [stored EXCEPT ![itemName].alerts =
                                            Put(@, alertName, ret.alertObject)]
                     ELSE stored
    IN  IF "item" \in DOMAIN ret
        THEN [withAlert EXCEPT ![itemName] = ret.item]
        ELSE withAlert

\* if (item) this.items[itemName] = item;
\* if (alertObject) this.items[itemName].alerts[alertName] = alertObject
ApplyItems(ret, itemName, alertName, stored) ==
    LET withItem == IF "item" \in DOMAIN ret
                    THEN [stored EXCEPT ![itemName] = ret.item]
                    ELSE stored
    IN  IF "alertObject" \in DOMAIN ret
        THEN [withItem EXCEPT ![itemName].alerts =
                                  Put(@, alertName, ret.alertObject)]
        ELSE withItem

(***************************************************************************)
(* run and start: the timers                                               *)
(***************************************************************************)
SetKey(itemName) == itemName \o "-interval"
CheckKey(itemName, alertName, time) ==
    itemName \o "-" \o alertName \o "-" \o time.text

\* mutant: an alert that carries times of its own is scheduled at those
RunTimers_AlertTimes(itemName) ==
    {[kind |-> "set", item |-> itemName, alert |-> "", key |-> SetKey(itemName),
      ms |-> items[itemName].interval, idx |-> 0]}
    \cup
    UNION {LET alert == items[itemName].alerts[a]
               times == IF "times" \in DOMAIN alert /\ alert.times # <<>>
                        THEN alert.times ELSE items[itemName].times
           IN  {[kind |-> "check", item |-> itemName, alert |-> a,
                 key |-> CheckKey(itemName, a, times[k]),
                 ms |-> timeConverter(times[k]), idx |-> k] : k \in DOMAIN times} :
             a \in DOMAIN items[itemName].alerts}

\* the timers run(itemName) creates; idx is the position in the times list
RunTimers(itemName) ==
    {[kind |-> "set", item |-> itemName, alert |-> "", key |-> SetKey(itemName),
      ms |-> items[itemName].interval, idx |-> 0]}
    \cup
    {[kind |-> "check", item |-> itemName, alert |-> a,
      key |-> CheckKey(itemName, a, items[itemName].times[k]),
      ms |-> timeConverter(items[itemName].times[k]), idx |-> k] :
        a \in DOMAIN items[itemName].alerts, k \in DOMAIN items[itemName].times}

\* what setInterval returned for a timer
Handle(t) == <<t.key, t.idx>>

\* start(), called once by the owner of the engine
Start ==
    /\ process = "running"
    /\ timers = {}
    /\ timers' = UNION {RunTimers(i) : i \in DOMAIN items}
    /\ intervalIds' =
         [key \in {t.key : t \in timers'} |->
            Handle(CHOOSE t \in timers' :
                      /\ t.key = key
                      /\ \A u \in timers' : u.key = key => u.idx <= t.idx)]
    /\ lastEval' = NoEval
    /\ lastCall' = NoCall
    /\ UNCHANGED <<items, db, pendingSet, pendingCb, recorded, done, process>>

(***************************************************************************)
(* The sampling task: a tick calls the setter, the await resumes with the  *)
(* value and records it.                                                   *)
(***************************************************************************)
RECURSIVE SumOver(_, _)
SumOver(f, S) ==
    IF S = {} THEN 0
    ELSE LET x == CHOOSE y \in S : TRUE
         IN  f[x] + SumOver(f, S \ {x})

\* the set() calls of an item whose setter call can settle, in flight
Settling(itemName) ==
    {k \in DOMAIN pendingSet[itemName] : ~CallHangs(pendingSet[itemName][k])}

\* sampling invocations started so far whose setter call can settle
Started ==
    SumOver([i \in DOMAIN items |-> Len(recorded[i]) + Cardinality(Settling(i))],
            DOMAIN items)

\* seq without its k-th element
Without(seq, k) == SubSeq(seq, 1, k - 1) \o SubSeq(seq, k + 1, Len(seq))

\* what the runtime does with a promise rejected with nobody handling it: it
\* reports it and goes on, or (Node.js since version 15, by default) ends the
\* process
Unhandled == {"running", "exited"}

\* the timers of a process
TimersOf(p) == IF p = "exited" THEN {} ELSE timers

\* mutant: a tick waits until no set() of any item is suspended
SetTick_OneAtATime(t) ==
    /\ t \in timers
    /\ t.kind = "set"
    /\ \A i \in DOMAIN items : pendingSet[i] = <<>>
    /\ LET setterCall == SetterCall(items[t.item].setter,
                                    Len(recorded[t.item]) + Len(pendingSet[t.item]) + 1)
       IN  /\ IF CallHangs(setterCall)
              THEN Len(pendingSet[t.item]) < MaxHung
              ELSE Started < MaxSamples
           /\ pendingSet' = [pendingSet EXCEPT ![t.item] = Append(@, setterCall)]
    /\ lastEval' = NoEval
    /\ lastCall' = NoCall
    /\ UNCHANGED <<items, db, intervalIds, timers, pendingCb, recorded, done, process>>

\* mutant: the tick calls the setter the item had before a callback replaced it
SetTick_FirstSetter(t) ==
    /\ t \in timers
    /\ t.kind = "set"
    /\ LET setter == IF items[t.item].setter = "getSwapUsage"
                     THEN "getRAMUsage" ELSE items[t.item].setter
           setterCall == SetterCall(setter,
                                    Len(recorded[t.item]) + Len(pendingSet[t.item]) + 1)
       IN  /\ IF CallHangs(setterCall)
              THEN Len(pendingSet[t.item]) < MaxHung
              ELSE Started < MaxSamples
           /\ pendingSet' = [pendingSet EXCEPT ![t.item] = Append(@, setterCall)]
    /\ lastEval' = NoEval
    /\ lastCall' = NoCall
    /\ UNCHANGED <<items, db, intervalIds, timers, pendingCb, recorded, done, process>>

\* the tick calls the setter the item has now and suspends on its promise
SetTick(t) ==
    /\ t \in timers
    /\ t.kind = "set"
    /\ LET setterCall == SetterCall(items[t.item].setter,
                                    Len(recorded[t.item]) + Len(pendingSet[t.item]) + 1)
       IN  /\ IF CallHangs(setterCall)
              THEN Len(pendingSet[t.item]) < MaxHung
              ELSE Started < MaxSamples
           /\ pendingSet' = [pendingSet EXCEPT ![t.item] = Append(@, setterCall)]
    /\ lastEval' = NoEval
    /\ lastCall' = NoCall
    /\ UNCHANGED <<items, db, intervalIds, timers, pendingCb, recorded, done, process>>

\* mutant: the sample recorded in the record the constructor created, held
\* since then, in place of the one stored now
SetResume_IntoFirstRecord(itemName, k, newValue) ==
    /\ process = "running"
    /\ k \in DOMAIN pendingSet[itemName]
    /\ newValue \in CallYields(pendingSet[itemName][k])
    /\ pendingSet' = [pendingSet EXCEPT ![itemName] = Without(@, k)]
    /\ db' = [db EXCEPT ![itemName] =
                 Record(InitialStats(items[itemName]), Num(newValue))]
    /\ recorded' = [recorded EXCEPT ![itemName] = Append(@, newValue)]
    /\ lastEval' = NoEval
    /\ lastCall' = NoCall
    /\ UNCHANGED <<items, intervalIds, timers, pendingCb, done, process>>

\* mutant: invocations taken to end in the order they started in: a
\* completion records its value and ends the oldest suspended invocation
SetResume_StartOrder(itemName, k, newValue) ==
    /\ process = "running"
    /\ k \in DOMAIN pendingSet[itemName]
    /\ newValue \in CallYields(pendingSet[itemName][k])
    /\ pendingSet' = [pendingSet EXCEPT ![itemName] = Tail(@)]
    /\ db' = [db EXCEPT ![itemName] = Record(@, Num(newValue))]
    /\ recorded' = [recorded EXCEPT ![itemName] = Append(@, newValue)]
    /\ lastEval' = NoEval
    /\ lastCall' = NoCall
    /\ UNCHANGED <<items, intervalIds, timers, pendingCb, done, process>>

\* the k-th suspended set() of the item resumes with newValue
SetResume(itemName, k, newValue) ==
    /\ process = "running"
    /\ k \in DOMAIN pendingSet[itemName]
    /\ newValue \in CallYields(pendingSet[itemName][k])
    /\ pendingSet' = [pendingSet EXCEPT ![itemName] = Without(@, k)]
    /\ db' = [db EXCEPT ![itemName] = Record(@, Num(newValue))]
    /\ recorded' = [recorded EXCEPT ![itemName] = Append(@, newValue)]
    /\ lastEval' = NoEval
    /\ lastCall' = NoCall
    /\ UNCHANGED <<items, intervalIds, timers, pendingCb, done, process>>

\* what is noted of a set() that ended with its setter's failure
SetFailed(itemName) == [op |-> "set", arg |-> itemName, result |-> "rejected"]

\* mutant: the failure is taken as a sample without a value, and now is
\* cleared
SetReject_ClearsNow(itemName, k) ==
    /\ process = "running"
    /\ k \in DOMAIN pendingSet[itemName]
    /\ CallFails(pendingSet[itemName][k])
    /\ pendingSet' = [pendingSet EXCEPT ![itemName] = Without(@, k)]
    /\ db' = [db EXCEPT ![itemName].now = Null]
    /\ process' \in Unhandled
    /\ timers' = TimersOf(process')
    /\ lastEval' = NoEval
    /\ lastCall' = SetFailed(itemName)
    /\ UNCHANGED <<items, intervalIds, pendingCb, recorded, done>>

\* the setter's promise rejects: the await of line 169 throws, set() records
\* nothing and its own promise rejects, held by nobody
SetReject(itemName, k) ==
    /\ process = "running"
    /\ k \in DOMAIN pendingSet[itemName]
    /\ CallFails(pendingSet[itemName][k])
    /\ pendingSet' = [pendingSet EXCEPT ![itemName] = Without(@, k)]
    /\ process' \in Unhandled
    /\ timers' = TimersOf(process')
    /\ lastEval' = NoEval
    /\ lastCall' = SetFailed(itemName)
    /\ UNCHANGED <<items, db, intervalIds, pendingCb, recorded, done>>

(***************************************************************************)
(* The evaluation task.  A callback that awaits nothing has resolved when  *)
(* check awaits it, so check resumes before any other task runs and the    *)
(* tick applies the returned value; otherwise check stays suspended until  *)
(* the callback's promise resolves.  An exception inside check() rejects   *)
(* its promise, which nobody holds.                                        *)
(***************************************************************************)
\* suspending callbacks invoked so far
Calls == Cardinality(pendingCb) + Len(done)

\* how an evaluation of the stored alert ends, before any callback is awaited
Outcome(itemName, alertName) ==
    IF alertName \notin DOMAIN items[itemName].alerts
    THEN "TypeError"                      \* alert.condition of undefined
    ELSE LET alert == items[itemName].alerts[alertName]
         IN  IF alert.condition.type = "function" /\ PredThrows(alert.condition.v)
             THEN "threw"
             ELSE IF ~Truthy(Evaluate(db[itemName], alert)) THEN "quiet"
             ELSE IF "function" \notin DOMAIN alert THEN "TypeError"
             ELSE IF CallbackRejects(alert.function) THEN "rejected"
             ELSE "called"

\* mutant: the callback of an alert is not called while an earlier call of it
\* is suspended
Check_SkipsWhilePending(t) ==
    /\ t \in timers
    /\ t.kind = "check"
    /\ LET outcome == Outcome(t.item, t.alert)
           known == t.alert \in DOMAIN items[t.item].alerts
           alert == items[t.item].alerts[t.alert]
           fire == outcome \notin {"quiet", "threw"} /\ known
           busy == \E call \in pendingCb :
                      call.item = t.item /\ call.alert = t.alert
           called == Invokes(fire) /\ "function" \in DOMAIN alert /\ ~busy
           applied == called /\ ~CallbackRejects(alert.function)
           touched == [items EXCEPT ![t.item].alerts[t.alert] =
                                       CallbackMutates(alert.function, @)]
           ret == OrEmpty(CallbackReturns(alert.function))
       IN  /\ (applied /\ CallbackSuspends(alert.function)) => Calls < MaxCalls
           /\ lastEval' =
                 [item |-> t.item, alert |-> t.alert,
                  outcome |-> outcome,
                  read |-> IF known THEN <<db[t.item], alert>> ELSE <<>>,
                  args |-> IF known /\ called THEN CallArgs(t.item, t.alert) ELSE <<>>]
           /\ IF ~known \/ ~applied
              THEN UNCHANGED <<items, db, pendingCb, recorded>>
              ELSE IF CallbackSuspends(alert.function)
              THEN /\ items' = touched
                   /\ pendingCb' = pendingCb \cup
                        {[seq |-> Calls + 1, item |-> t.item, alert |-> t.alert,
                          ret |-> ret]}
                   /\ UNCHANGED <<db, recorded>>
              ELSE /\ db' = ApplyDb(ret, t.item, db)
                   /\ items' = ApplyItems(ret, t.item, t.alert, touched)
                   /\ recorded' = HistoryAfter(ret, t.item, recorded)
                   /\ UNCHANGED pendingCb
           /\ process' \in IF outcome \in {"TypeError", "threw", "rejected"}
                           THEN Unhandled ELSE {"running"}
    /\ timers' = TimersOf(process')
    /\ lastCall' = NoCall
    /\ UNCHANGED <<intervalIds, pendingSet, done>>

\* check(itemName, alertName), up to the end or to its await
Check(t) ==
    /\ t \in timers
    /\ t.kind = "check"
    /\ LET outcome == Outcome(t.item, t.alert)
           known == t.alert \in DOMAIN items[t.item].alerts
           alert == items[t.item].alerts[t.alert]
           fire == outcome \notin {"quiet", "threw"} /\ known
           called == Invokes(fire) /\ "function" \in DOMAIN alert
           applied == called /\ ~CallbackRejects(alert.function)
           touched == [items EXCEPT ![t.item].alerts[t.alert] =
                                       CallbackMutates(alert.function, @)]
           ret == OrEmpty(CallbackReturns(alert.function))
       IN  /\ (applied /\ CallbackSuspends(alert.function)) => Calls < MaxCalls
           /\ lastEval' =
                 [item |-> t.item, alert |-> t.alert,
                  outcome |-> outcome,
                  read |-> IF known THEN <<db[t.item], alert>> ELSE <<>>,
                  args |-> IF known /\ called THEN CallArgs(t.item, t.alert) ELSE <<>>]
           /\ IF ~known \/ ~applied
              THEN UNCHANGED <<items, db, pendingCb, recorded>>
              ELSE IF CallbackSuspends(alert.function)
              THEN /\ items' = touched
                   /\ pendingCb' = pendingCb \cup
                        {[seq |-> Calls + 1, item |-> t.item, alert |-> t.alert,
                          ret |-> ret]}
                   /\ UNCHANGED <<db, recorded>>
              ELSE /\ db' = ApplyDb(ret, t.item, db)
                   /\ items' = ApplyItems(ret, t.item, t.alert, touched)
                   /\ recorded' = HistoryAfter(ret, t.item, recorded)
                   /\ UNCHANGED pendingCb
           /\ process' \in IF outcome \in {"TypeError", "threw", "rejected"}
                           THEN Unhandled ELSE {"running"}
    /\ timers' = TimersOf(process')
    /\ lastCall' = NoCall
    /\ UNCHANGED <<intervalIds, pendingSet, done>>

\* what is noted of a check() that resumed after its callback
Resumed(call) == [op |-> "resumed", arg |-> call.item, result |-> call.alert]

\* mutant: the replacements of a callback are dropped when a callback of the
\* item that was called after it has completed already
CheckResume_CallOrder(call) ==
    /\ process = "running"
    /\ call \in pendingCb
    /\ pendingCb' = pendingCb \ {call}
    /\ done' = Append(done, call)
    /\ LET late == \E k \in DOMAIN done :
                       done[k].item = call.item /\ done[k].seq > call.seq
           ret == IF late THEN <<>> ELSE call.ret
       IN  /\ db' = ApplyDb(ret, call.item, db)
           /\ items' = ApplyItems(ret, call.item, call.alert, items)
           /\ recorded' = HistoryAfter(ret, call.item, recorded)
    /\ lastEval' = NoEval
    /\ lastCall' = Resumed(call)
    /\ UNCHANGED <<intervalIds, timers, pendingSet, process>>

\* the callback's promise resolves and the suspended check() resumes
CheckResume(call) ==
    /\ process = "running"
    /\ call \in pendingCb
    /\ pendingCb' = pendingCb \ {call}
    /\ done' = Append(done, call)
    /\ db' = ApplyDb(call.ret, call.item, db)
    /\ items' = ApplyItems(call.ret, call.item, call.alert, items)
    /\ recorded' = HistoryAfter(call.ret, call.item, recorded)
    /\ lastEval' = NoEval
    /\ lastCall' = Resumed(call)
    /\ UNCHANGED <<intervalIds, timers, pendingSet, process>>

\* get(name), called by the owner of the engine
Get(name) ==
    /\ process = "running"
    /\ lastCall' = [op |-> "get", arg |-> name, result |-> get(name)]
    /\ lastEval' = NoEval
    /\ UNCHANGED <<items, db, intervalIds, timers, pendingSet, pendingCb, recorded,
                   done, process>>

Next ==
    \/ Start
    \/ \E t \in timers : SetTick(t)
    \/ \E i \in DOMAIN items : \E k \in DOMAIN pendingSet[i] :
          \E v \in CallYields(pendingSet[i][k]) : SetResume(i, k, v)
    \/ \E t \in timers : Check(t)
    \/ \E call \in pendingCb : CheckResume(call)

Spec == Init /\ [][Next]_vars

(***************************************************************************)
(* Properties.                                                             *)
(***************************************************************************)
ItemNames == DOMAIN items

\* seq as JavaScript numbers
AsNums(seq) == [k \in DOMAIN seq |-> Num(seq[k])]

IsSuffix(s, full) ==
    /\ Len(s) <= Len(full)
    /\ s = SubSeq(full, Len(full) - Len(s) + 1, Len(full))

IsPrefix(s, full) ==
    /\ Len(s) <= Len(full)
    /\ s = SubSeq(full, 1, Len(s))

Last(seq) == seq[Len(seq)]
Front(seq) == SubSeq(seq, 1, Len(seq) - 1)

\* a sampling task recorded a sample on item i in this step
Records(i) == Len(pendingSet'[i]) < Len(pendingSet[i])

\* C1: the history buffer of an item never holds more entries than its
\* bufferSize.
C1_BufferWithinCapacity ==
    \A i \in ItemNames : Len(db[i].buffer) <= db[i].bufferSize

\* C2: with bufferSize 3 and the samples 10, 20, 30, 40 recorded in that order,
\* now is 10, 20, 30, 40 and the buffer is [], [10], [10,20], [20,30] after the
\* respective sample.
C2_Trace ==
    \A i \in ItemNames :
        LET k == Len(recorded[i])
            trace == << <<>>, <<10>>, <<10, 20>>, <<20, 30>> >>
        IN  (/\ db[i].bufferSize = 3
             /\ k \in 1..4
             /\ recorded[i] = SubSeq(<<10, 20, 30, 40>>, 1, k))
            => /\ db[i].now = Num(recorded[i][k])
               /\ db[i].buffer = AsNums(trace[k])

\* C3: the history lags now by one step: after the k-th sample the buffer holds
\* only samples 1..k-1, oldest first (a window ending at sample k-1), and not
\* the sample just recorded.
C3_HistoryLags ==
    \A i \in ItemNames :
        recorded[i] # <<>> => IsSuffix(db[i].buffer, AsNums(Front(recorded[i])))

\* C4: a record that starts with the buffer holding exactly bufferSize entries
\* removes the oldest entry and leaves no more than bufferSize entries.
C4_StrictFifo ==
    [][\A i \in ItemNames :
         (Records(i) /\ Len(db[i].buffer) = db[i].bufferSize)
         => /\ Len(db'[i].buffer) <= db[i].bufferSize
            /\ IsPrefix(Tail(db[i].buffer), db'[i].buffer)]_vars

\* the sum of the numerators of a sequence of whole numbers
RECURSIVE IntSum(_)
IntSum(buffer) ==
    IF buffer = <<>> THEN 0 ELSE buffer[1].n + IntSum(Tail(buffer))

\* C5: once an item has a sample, in every state sum is the sum of the entries
\* of its buffer and avg is sum divided by the buffer's length.
C5_SumAndAvg ==
    \A i \in ItemNames :
        recorded[i] # <<>> =>
            /\ db[i].sum = [t |-> "num", n |-> IntSum(db[i].buffer), d |-> 1]
            /\ db[i].avg.t = "num"
            /\ db[i].avg.n * Len(db[i].buffer) = db[i].sum.n * db[i].avg.d

\* a buffer whose mean is not a whole number, after an eviction
C5_Witness ==
    \E i \in ItemNames :
        /\ Len(recorded[i]) >= 3
        /\ Len(db[i].buffer) < 2 * Len(recorded[i]) - 1
        /\ db[i].avg.d > 1

StatScalars == {"now", "avg", "sum", "nowPct", "avgPct"}

\* C6: now, avg, sum, nowPct and avgPct are all null exactly while the item has
\* no sample, and all present once it has one.
C6_AllOrNone ==
    \A i \in ItemNames :
        /\ recorded[i] = <<>> => \A f \in StatScalars : db[i][f] = Null
        /\ recorded[i] # <<>> => \A f \in StatScalars : db[i][f] # Null

\* one item sampled while another is still without a sample
C6_Witness ==
    \E i, j \in ItemNames :
        /\ recorded[i] # <<>>
        /\ recorded[j] = <<>>
        /\ db[i].avgPct # Null
        /\ db[j].avgPct = Null

\* C7: for max > 0, once an item has a sample, avgPct = avg / max * 100 and
\* nowPct = now / max * 100.
C7_Percentages ==
    \A i \in ItemNames :
        (db[i].max > 0 /\ recorded[i] # <<>>) =>
            /\ db[i].avgPct.t = "num"
            /\ db[i].avgPct.n * db[i].avg.d * db[i].max
                 = db[i].avg.n * 100 * db[i].avgPct.d
            /\ db[i].nowPct.t = "num"
            /\ db[i].nowPct.n * db[i].now.d * db[i].max
                 = db[i].now.n * 100 * db[i].nowPct.d

\* avg is not a whole number and differs from now; max differs from 100
C7_Witness ==
    \E i \in ItemNames :
        /\ db[i].max > 0
        /\ db[i].max # 100
        /\ recorded[i] # <<>>
        /\ db[i].avg.d > 1
        /\ db[i].avg # db[i].now

\* an evaluation was the last step; the records it read are the stored ones
Evaluated == lastEval.outcome # "none"
EvalStats == lastEval.read[1]
EvalAlert == lastEval.read[2]
Fired == lastEval.outcome # "quiet"

\* x < V, x = V, x > V for a present scalar x (finite, infinite or NaN) and a
\* finite V, as "lt", "eq", "gt", or "un" when x is NaN
Order(x, V) ==
    CASE x.t = "nan" -> "un"
      [] x.t = "inf" -> IF x.n > 0 THEN "gt" ELSE "lt"
      [] x.t = "num" -> IF x.n * V.d < V.n * x.d THEN "lt"
                        ELSE IF x.n * V.d > V.n * x.d THEN "gt" ELSE "eq"

\* the scalar and the order each built-in kind stands for
KindScalar(kind) ==
    CASE kind \in {"equal", "more", "less"}                         -> "now"
      [] kind \in {"equal_pct", "more_pct", "less_pct"}             -> "nowPct"
      [] kind \in {"equal_avg", "more_avg", "less_avg"}             -> "avg"
      [] kind \in {"equal_avg_pct", "more_avg_pct", "less_avg_pct"} -> "avgPct"

KindOrder(kind) ==
    CASE kind \in {"equal", "equal_pct", "equal_avg", "equal_avg_pct"} -> "eq"
      [] kind \in {"more", "more_pct", "more_avg", "more_avg_pct"}     -> "gt"
      [] kind \in {"less", "less_pct", "less_avg", "less_avg_pct"}     -> "lt"

\* C8: an evaluation of a built-in kind on a record whose scalars are present
\* fires exactly when the kind's scalar stands in the kind's order (equal: =,
\* more: >, less: <) to the alert's value.
C8_BuiltinVerdict ==
    (/\ Evaluated
     /\ EvalAlert.condition.type = "string"
     /\ \A f \in StatScalars : EvalStats[f] # Null)
    => (Fired <=> Order(EvalStats[KindScalar(EvalAlert.condition.v)],
                        EvalAlert.value)
                    = KindOrder(EvalAlert.condition.v))

\* less_avg_pct fires on a mean that is not a whole number
C8_Witness ==
    /\ Evaluated
    /\ EvalAlert.condition = Kind("less_avg_pct")
    /\ EvalStats.avgPct.t = "num"
    /\ EvalStats.avg.d > 1
    /\ EvalStats.avg # EvalStats.now
    /\ Fired

\* C9: an evaluation of a built-in kind while the item has no sample does not
\* fire and invokes no callback.
C9_QuietBeforeFirstSample ==
    (/\ Evaluated
     /\ EvalAlert.condition.type = "string"
     /\ recorded[lastEval.item] = <<>>)
    => lastEval.outcome = "quiet"

\* what each custom predicate says of a record, in terms of the record alone
PredHolds(p, stats) ==
    CASE p = "bufferLong" -> Len(stats.buffer) > 2
      [] p = "nowValue"   -> stats.now.t \in {"num", "inf"} /\ stats.now.n # 0

\* C10: an evaluation of a custom predicate fires exactly when the predicate
\* returns a truthy value on the item's stored statistics record, whatever
\* the alert's value.
C10_CustomVerdict ==
    (Evaluated /\ EvalAlert.condition.type = "function")
    => (Fired <=> PredHolds(EvalAlert.condition.v, EvalStats))

\* the predicate on the buffer's length fires an alert whose value 20 is
\* above now
C10_Witness ==
    /\ Evaluated
    /\ Fired
    /\ EvalAlert.condition = Pred("bufferLong")
    /\ EvalAlert.value = Num(20)
    /\ EvalStats.now = Num(10)

(***************************************************************************)
(* Callbacks.                                                              *)
(***************************************************************************)
\* this step is an evaluation
Evaluates == lastEval'.outcome # "none"

\* the alert this step evaluates, as stored before the step
StepAlert == items[lastEval'.item].alerts[lastEval'.alert]

\* C11: every evaluation of an alert that has a callback invokes the callback
\* exactly once when the verdict is true and not at all when it is false, and
\* the callback receives the stored statistics record, item configuration and
\* alert configuration themselves: what it changes in them in place is changed
\* in the engine's records.
C11_CallbackOncePerFiring ==
    [][(Evaluates /\ "function" \in DOMAIN StepAlert) =>
         LET i == lastEval'.item
             a == lastEval'.alert
         IN  IF lastEval'.outcome # "quiet"
             THEN /\ lastEval'.args = <<db[i], items[i], StepAlert>>
                  /\ CallbackSuspends(StepAlert.function) =>
                        \E call \in pendingCb' \ pendingCb :
                            /\ pendingCb' = pendingCb \cup {call}
                            /\ call.item = i
                            /\ call.alert = a
                  /\ ~CallbackSuspends(StepAlert.function) =>
                        pendingCb' = pendingCb
                  /\ StepAlert.function = "raise" =>
                        items'[i].alerts[a].value.n = StepAlert.value.n + 10
             ELSE /\ lastEval'.args = <<>>
                  /\ UNCHANGED <<items, db, pendingCb>>]_vars

\* the callback that raises the threshold was handed the alert with value 20
\* and the stored alert now has value 30
C11_Witness ==
    /\ lastEval.outcome = "called"
    /\ lastEval.alert = "hot"
    /\ lastEval.args[1] = lastEval.read[1]
    /\ lastEval.args[3].value = Num(20)
    /\ items["cpu_usage"].alerts["hot"].value = Num(30)

\* C12: an evaluation of an alert that has no callback, whose condition is
\* true, completes without error and leaves the statistics, the item
\* configuration and the alert configuration as they were.
C12_NoCallbackNoError ==
    (Evaluated /\ "function" \notin DOMAIN EvalAlert /\ Fired)
    => lastEval.outcome # "TypeError"

\* this step is the completion of a suspended check()
Completes == Len(done') > Len(done)

\* this step is an evaluation whose callback returned without suspending
ReturnsAtOnce ==
    /\ Evaluates
    /\ lastEval'.outcome = "called"
    /\ ~CallbackSuspends(StepAlert.function)

\* the value check() got from the callback in this step, after || {}
StepReturn ==
    IF Completes THEN done'[Len(done')].ret
    ELSE IF CallbackReturns(StepAlert.function) = Undefined THEN <<>>
    ELSE CallbackReturns(StepAlert.function)

\* the item and the alert of the check() that got it
StepItem == IF Completes THEN done'[Len(done')].item ELSE lastEval'.item
StepName == IF Completes THEN done'[Len(done')].alert ELSE lastEval'.alert

\* C13: when a callback returns a replacement statistics record, the stored
\* record becomes exactly that record and get returns it; a returned item
\* configuration or alert configuration likewise becomes the stored one.
C13_ReplacementStored ==
    [][(Completes \/ ReturnsAtOnce) =>
         /\ "db" \in DOMAIN StepReturn =>
               /\ db'[StepItem] = StepReturn.db
               /\ \A n \in ItemNames : n = StepItem => get(n)' = StepReturn.db
         /\ ("item" \in DOMAIN StepReturn /\ "alertObject" \notin DOMAIN StepReturn) =>
               items'[StepItem] = StepReturn.item
         /\ "alertObject" \in DOMAIN StepReturn =>
               items'[StepItem].alerts[StepName] = StepReturn.alertObject]_vars

\* a record with two samples, limits 2 and 100, was replaced by the returned
\* record with limits 1 and 50, and get returns that one
C13_Witness ==
    /\ done # <<>>
    /\ done[Len(done)].ret = [db |-> ResetStats]
    /\ get("ram_usage") = ResetStats
    /\ get("ram_usage").max = 50
    /\ pendingCb = {}

C15_RaisedThresholdUsed ==
    [][\A i \in ItemNames : \A a \in DOMAIN items[i].alerts :
         items[i].alerts[a] = AlertWith(a, Kind("more"), items[i].alerts[a].value.n, "raise") =>
           LET value == items[i].alerts[a].value.n
               now == IF db[i].now = Null THEN 0 ELSE db[i].now.n
               evaluated == Evaluates /\ lastEval'.item = i /\ lastEval'.alert = a
               fires == evaluated /\ now > value
           IN  /\ evaluated => (lastEval'.outcome = "called" <=> now > value)
               /\ items'[i].alerts[a].value.n = IF fires THEN value + 10 ELSE value]_vars

\* the threshold was raised from 20 to 30 and a sample of 30, which exceeds 20,
\* leaves the alert quiet
C15_Witness ==
    /\ lastEval.outcome = "quiet"
    /\ lastEval.alert = "hot"
    /\ lastEval.read[1].now = Num(30)
    /\ lastEval.read[2].value = Num(30)

(***************************************************************************)
(* Scheduling.                                                             *)
(***************************************************************************)
\* the milliseconds of the duration strings the configurations use
ExpectedMs(text) ==
    CASE text = "1_s"  -> 1000
      [] text = "3_s"  -> 3000
      [] text = "5_s"  -> 5000
      [] text = "7_s"  -> 7000
      [] text = "10_s" -> 10000
      [] text = "30_s" -> 30000
      [] text = "1_m"  -> 60000
      [] text = "2_h"  -> 7200000

\* C16: start() creates, for each item, exactly one sampling task at the
\* item's interval and exactly one evaluation task for every pair of one of the
\* item's alerts and one entry of the item's times, at the period the entry
\* denotes, and no other task.
C16_TasksOfStart ==
    [][(timers = {} /\ timers' # {}) =>
         /\ \A i \in ItemNames :
               /\ Cardinality({t \in timers' : t.kind = "set" /\ t.item = i}) = 1
               /\ \A t \in timers' :
                     (t.kind = "set" /\ t.item = i) => t.ms = items[i].interval
               /\ \A a \in DOMAIN items[i].alerts : \A k \in DOMAIN items[i].times :
                     Cardinality({t \in timers' :
                                    /\ t.kind = "check"
                                    /\ t.item = i
                                    /\ t.alert = a
                                    /\ t.ms = ExpectedMs(items[i].times[k].text)}) = 1
         /\ Cardinality(timers') =
               SumOver([i \in ItemNames |->
                          1 + Cardinality(DOMAIN items[i].alerts) * Len(items[i].times)],
                       ItemNames)]_vars

\* the engine of two items, one with two alerts and three periods: eight tasks,
\* one of them every two hours
C16_Witness ==
    /\ Cardinality(timers) = 8
    /\ \E t \in timers : t.alert = "full" /\ t.ms = 7200000
    /\ \E t \in timers : t.kind = "set" /\ t.item = "net" /\ t.ms = 1000

C18_EndToEnd ==
    (/\ Evaluated
     /\ lastEval.item = "temp"
     /\ lastEval.alert = "hi")
    => /\ recorded["temp"] = <<25>> =>
             /\ lastEval.outcome = "quiet"
             /\ lastEval.args = <<>>
       /\ recorded["temp"] = <<25, 75>> =>
             /\ lastEval.outcome = "called"
             /\ Len(lastEval.args) = 3
             /\ lastEval.args[1].now = Num(75)
             /\ lastEval.args[1].bufferSize = 10
             /\ lastEval.args[1].max = 100
             /\ pendingCb = {}

\* the evaluation after the second sample: the callback got now = 75 and
\* nowPct = 75
C18_Witness ==
    /\ lastEval.item = "temp"
    /\ lastEval.outcome = "called"
    /\ recorded["temp"] = <<25, 75>>
    /\ lastEval.args[1].now = Num(75)
    /\ lastEval.args[1].nowPct = Num(75)
    /\ lastEval.args[3].value = Num(50)

(***************************************************************************)
(* Interleavings of the tasks of one item.                                 *)
(***************************************************************************)
\* C19: whatever the interleaving of the sampling and evaluation tasks of an
\* item, a step leaves its statistics record as it was, or as one whole sample
\* recorded in it, or replaces it by the whole record a callback returned: no
\* state holds a record mixed from the two.
C19_WholeRecords ==
    [][\A i \in ItemNames :
         \/ db'[i] = db[i]
         \/ \E k \in DOMAIN pendingSet[i] : \E v \in CallYields(pendingSet[i][k]) :
               /\ db'[i] = Record(db[i], Num(v))
               /\ pendingSet'[i] = Without(pendingSet[i], k)
         \/ \E call \in pendingCb :
               /\ call.item = i
               /\ "db" \in DOMAIN call.ret
               /\ db'[i] = call.ret.db
               /\ call \notin pendingCb']_vars

\* after a callback replaced the record a sample of 0 was recorded in the
\* replacement: the returned buffer [75], then 75 and 0
C19_Witness ==
    /\ done # <<>>
    /\ done[Len(done)].ret = [db |-> TrimStats]
    /\ db["ram_usage"].buffer = <<Num(75), Num(75), Num(0)>>
    /\ db["ram_usage"].now = Num(0)
    /\ db["ram_usage"].sum = Num(150)

\* C20: when two callbacks of one item have both returned a replacement for
\* the same record, the stored record once both have completed is the
\* replacement of the one that completed last, whichever was called first.
C20_LastCompletionWins ==
    [][Completes =>
         LET call == done'[Len(done')]
             Both(f) == /\ f \in DOMAIN call.ret
                        /\ \E k \in DOMAIN done :
                              /\ done[k].item = call.item
                              /\ f \in DOMAIN done[k].ret
         IN  /\ Both("db") => db'[call.item] = call.ret.db
             /\ (Both("item") /\ "alertObject" \notin DOMAIN call.ret)
                  => items'[call.item] = call.ret.item
             /\ (/\ "alertObject" \in DOMAIN call.ret
                 /\ \E k \in DOMAIN done :
                       /\ done[k].item = call.item
                       /\ done[k].alert = call.alert
                       /\ "alertObject" \in DOMAIN done[k].ret)
                  => items'[call.item].alerts[call.alert] = call.ret.alertObject]_vars

\* two callbacks completed in the reverse of the order they were called in, with
\* different replacement records: the stored one is that of the second to
\* complete
C20_Witness ==
    /\ Len(done) = 2
    /\ done[1].seq = 2
    /\ done[2].seq = 1
    /\ done[1].ret = [db |-> ResetStats]
    /\ done[2].ret = [db |-> TrimStats]
    /\ db["ram_usage"] = TrimStats

(***************************************************************************)
(* A replaced sampling function.                                           *)
(***************************************************************************)
\* the step starts a sampling invocation of item i
Samples(i) == Len(pendingSet'[i]) > Len(pendingSet[i])

\* C28: every sampling invocation calls the sampling function the item's
\* stored configuration carries when the invocation starts, hence the
\* replacement once a callback's replacement item is stored, and the value
\* recorded at its end is one that the function it called yields.
C28_ReplacementSetterSampled ==
    [][\A i \in DOMAIN items :
          /\ Samples(i) =>
                /\ Len(pendingSet'[i]) = Len(pendingSet[i]) + 1
                /\ pendingSet'[i][Len(pendingSet'[i])].setter = items[i].setter
          /\ Records(i) =>
                \E k \in DOMAIN pendingSet[i] :
                   /\ pendingSet'[i] = Without(pendingSet[i], k)
                   /\ db'[i].now.t = "num" /\ db'[i].now.d = 1
                   /\ db'[i].now.n \in SetterYields(pendingSet[i][k].setter)]_vars

\* the callback's item with another sampling function is stored, and a value
\* of that function has been recorded
C28_Witness ==
    /\ "ram_usage" \in DOMAIN items
    /\ items["ram_usage"].setter = "getSwapUsage"
    /\ db["ram_usage"].now = Num(60)
    /\ recorded["ram_usage"] # <<>>
    /\ Last(recorded["ram_usage"]) = 60

(***************************************************************************)
(* The buffer's entries.                                                   *)
(***************************************************************************)
\* C29: every entry of every item's buffer is a number: the null that now
\* holds before the first sample is never stored in the buffer.
C29_NoNullInBuffer ==
    \A i \in DOMAIN db :
       \A k \in DOMAIN db[i].buffer :
          db[i].buffer[k] # Null /\ db[i].buffer[k].t = "num"

\* the first sample has been recorded: the buffer holds it and nothing else
C29_Witness ==
    /\ "cpu_usage" \in DOMAIN db
    /\ recorded["cpu_usage"] = <<10>>
    /\ db["cpu_usage"].now = Num(10)
    /\ db["cpu_usage"].buffer = <<Num(10)>>

(***************************************************************************)
(* A setter that never returns.                                            *)
(***************************************************************************)
\* one item whose setter never returns next to one whose setter always does
LiveInput ==
    << [name |-> "stuck", setter |-> "hangs",
        alerts |-> <<Alert("high", Kind("more"), 1)>>,
        times |-> <<Time("1_s", <<1>>, "s")>>],
       [name |-> "ok", setter |-> "getDiskUsage",
        alerts |-> <<Alert("busy", Kind("more"), 1)>>,
        times |-> <<Time("1_s", <<1>>, "s")>>] >>

LiveInit == InitWith(LiveInput)

LiveNext ==
    \/ Start
    \/ \E t \in timers : SetTick(t)
    \/ \E i \in DOMAIN items : \E k \in DOMAIN pendingSet[i] :
          \E v \in CallYields(pendingSet[i][k]) : SetResume(i, k, v)
    \/ \E t \in timers : Check(t)

\* a suspended set() of the healthy item resumes with a value its setter yields
OkResumes ==
    \E k \in DOMAIN pendingSet["ok"] :
       \E v \in CallYields(pendingSet["ok"][k]) : SetResume("ok", k, v)

\* OkResumes is enabled exactly when the healthy item has a suspended set():
\* its setter always yields a value and the step shortens pendingSet
OkPending == process = "running" /\ pendingSet["ok"] # <<>>

\* the timer facility dispatches every interval timer again and again
\* (WF on each item's sampling tick), and a setter call that can return does
\* return: weak fairness of OkResumes, written with its enabling condition
\* OkPending in place of ENABLED <<OkResumes>>_vars
LiveFairness ==
    /\ WF_vars(\E t \in timers : SetTick(t) /\ t.item = "ok")
    /\ WF_vars(\E t \in timers : SetTick(t) /\ t.item = "stuck")
    /\ ([]<>(~OkPending) \/ []<><<OkResumes>>_vars)

LiveSpec == LiveInit /\ [][LiveNext]_vars /\ LiveFairness

\* C21: once started, the item whose setter always returns goes on having
\* samples recorded, up to the last sample the bound allows, while the other
\* item's setter never returns and its timers keep firing.
C21_HealthyItemKeepsSampling ==
    (timers # {}) ~> (Len(recorded["ok"]) = MaxSamples)

\* the hung item has as many suspended set() calls as the bound allows, none
\* recorded, and the other item has recorded every sample
C21_Witness ==
    /\ Len(pendingSet["stuck"]) = MaxHung
    /\ recorded["stuck"] = <<>>
    /\ db["stuck"].now = Null
    /\ Len(recorded["ok"]) = MaxSamples
    /\ pendingSet["ok"] = <<>>

(***************************************************************************)
(* Failing functions.                                                      *)
(***************************************************************************)
\* an item whose setter may reject and whose predicate throws, next to an item
\* whose setter always returns and whose callback rejects
FaultInput ==
    << [name |-> "bad", setter |-> "flaky",
        alerts |-> <<AlertWith("probe", Pred("throws"), 1, "log")>>,
        times |-> <<Time("1_s", <<1>>, "s")>>],
       [name |-> "ok", setter |-> "getDiskUsage",
        alerts |-> <<AlertWith("busy", Kind("more"), 1, "rejects")>>,
        times |-> <<Time("1_s", <<1>>, "s")>>] >>

FaultInit == InitWith(FaultInput)

FaultNext ==
    \/ Start
    \/ \E t \in timers : SetTick(t)
    \/ \E i \in DOMAIN items : \E k \in DOMAIN pendingSet[i] :
          \E v \in CallYields(pendingSet[i][k]) : SetResume(i, k, v)
    \/ \E i \in DOMAIN items : \E k \in DOMAIN pendingSet[i] : SetReject(i, k)
    \/ \E t \in timers : Check(t)

FaultSpec == FaultInit /\ [][FaultNext]_vars

\* the step is a set() of item i whose setter failed: the call is gone and
\* nothing was recorded
SetterFails(i) ==
    Len(pendingSet'[i]) < Len(pendingSet[i]) /\ recorded'[i] = recorded[i]

\* the step is an evaluation of item i in which the predicate or the callback
\* failed
CheckFails(i) ==
    lastEval'.item = i /\ lastEval'.outcome \in {"threw", "rejected", "TypeError"}

\* C22: a failure of a sampling function, of a custom predicate or of an alert
\* callback in a tick of one item leaves every scheduled task of every other
\* item in place.
C22_FailureConfined ==
    [][\A i \in DOMAIN items :
          (SetterFails(i) \/ CheckFails(i)) =>
             \A t \in timers : t.item # i => t \in timers']_vars

\* C33: a tick whose sampling function fails leaves the item's statistics
\* record as it was, and a tick whose sampling function returns, after a
\* failure or not, records the value returned: now is that value and it is
\* the last entry of the buffer.
C33_FailedTickRecordsNothing ==
    [][\A i \in DOMAIN items :
          /\ SetterFails(i) => db' = db /\ items' = items /\ recorded' = recorded
          /\ (Records(i) /\ ~SetterFails(i)) =>
                \E v \in SetterYields(items[i].setter) :
                   /\ db'[i].now = Num(v)
                   /\ Last(db'[i].buffer) = Num(v)
                   /\ recorded'[i] = Append(recorded[i], v)
                   /\ Len(db'[i].buffer) > Len(db[i].buffer)]_vars

\* a tick of the item has just failed, after an earlier tick had recorded a
\* sample, and the record still holds that sample
C33_Witness ==
    /\ lastCall.op = "set"
    /\ lastCall.arg = "bad"
    /\ lastCall.result = "rejected"
    /\ recorded["bad"] = <<5>>
    /\ db["bad"].now = Num(5)
    /\ db["bad"].buffer = <<Num(5)>>

(***************************************************************************)
(* The public interface next to the running tasks.                         *)
(***************************************************************************)
\* an item whose callback returns a replacement statistics record, next to an
\* item whose callback raises its own threshold in place
PairInput ==
    << RamItem(<<AlertWith("reset", Kind("more"), 50, "resetStats")>>),
       [name |-> "disk", setter |-> "getDiskUsage",
        alerts |-> <<AlertWith("busy", Kind("more"), 1, "raise")>>,
        times |-> <<Time("1_s", <<1>>, "s")>>] >>

\* inputs with an item that fails validation: no name; a setter that is not a
\* function; a malformed duration; an invalid item after a valid one
InvalidInputs ==
    { << [setter |-> "getDiskUsage", alerts |-> <<>>] >>,
      << [name |-> "disk", setter |-> "not a function", alerts |-> <<>>] >>,
      << [name |-> "disk", setter |-> "getDiskUsage", alerts |-> <<>>,
          times |-> <<Time("10_x", <<1, 0>>, "x")>>] >>,
      << [name |-> "disk", setter |-> "getDiskUsage", alerts |-> <<>>,
          times |-> <<Time("_s", <<>>, "s")>>] >>,
      << PairInput[2],
         [name |-> "late", setter |-> "not a function", alerts |-> <<>>] >>,
      << PairInput[2],
         [name |-> "late", setter |-> "getDiskUsage",
          alerts |-> <<[name |-> "busy", condition |-> Kind("above"),
                        value |-> Num(1), function |-> "log"]>>] >> }

\* an item configuration that gives no alerts
OmitInput ==
    << [name |-> "bare", setter |-> "getDiskUsage",
        times |-> <<Time("1_s", <<1>>, "s")>>] >>

ApiInputs == {PairInput, OmitInput} \cup InvalidInputs

\* the names get is called with: the configured ones and one that is not
ApiNames == DOMAIN items \cup {"nope"}

ApiInit == \E input \in ApiInputs : InitWith(input)

ApiNext ==
    \/ Start
    \/ \E t \in timers : SetTick(t)
    \/ \E i \in DOMAIN items : \E k \in DOMAIN pendingSet[i] :
          \E v \in CallYields(pendingSet[i][k]) : SetResume(i, k, v)
    \/ \E t \in timers : Check(t)
    \/ \E call \in pendingCb : CheckResume(call)
    \/ \E name \in ApiNames : Get(name)

ApiSpec == ApiInit /\ [][ApiNext]_vars

\* the step is a call of get
Gets == lastCall'.op = "get"

\* C23: a call of get returns the stored statistics record of the name it is
\* given when that name is a configured item and undefined otherwise, and it
\* leaves the records, the configurations and the scheduled tasks as they are.
C23_GetReadsOnly ==
    [][Gets =>
         /\ lastCall'.result =
               IF lastCall'.arg \in DOMAIN items
               THEN db[lastCall'.arg] ELSE Undefined
         /\ UNCHANGED <<items, db, intervalIds, timers, pendingSet, pendingCb,
                        recorded, process>>]_vars

\* get returned the record of a sampled item while tasks were scheduled
C23_Witness ==
    /\ lastCall.op = "get"
    /\ timers # {}
    /\ lastCall.arg = "ram_usage"
    /\ lastCall.result = db["ram_usage"]
    /\ db["ram_usage"].now = Num(75)

\* the item configuration lacks a name or a setter, its setter is no
\* function, one of its durations is not <digits>_<s|m|h>, or one of its
\* alerts names a condition that is no built-in kind
Defective(item) ==
    \/ "name" \notin DOMAIN item
    \/ "setter" \notin DOMAIN item
    \/ "setter" \in DOMAIN item /\ item.setter \notin Functions
    \/ "times" \in DOMAIN item /\
          \E k \in DOMAIN item.times :
             item.times[k].digits = <<>> \/ item.times[k].mark \notin {"s", "m", "h"}
    \/ "alerts" \in DOMAIN item /\
          \E k \in DOMAIN item.alerts :
             /\ item.alerts[k].condition.type = "string"
             /\ item.alerts[k].condition.v \notin DOMAIN conditions

\* C25: when some item configuration of the input fails validation, the
\* constructor ends with an error and there is no engine: no item, no record,
\* no scheduled task, also when the items before the failing one are valid.
C25_AllOrNothing ==
    (lastCall.op = "new" /\ \E k \in DOMAIN lastCall.arg : Defective(lastCall.arg[k]))
       => /\ lastCall.result = "Error"
          /\ process = "none"
          /\ items = <<>> /\ db = <<>>
          /\ timers = {} /\ pendingSet = <<>> /\ pendingCb = {}

\* the constructor threw at the second item, the first being valid
C25_Witness ==
    /\ lastCall.op = "new"
    /\ lastCall.result = "Error"
    /\ Len(lastCall.arg) = 2
    /\ ~Defective(lastCall.arg[1])
    /\ Defective(lastCall.arg[2])
    /\ process = "none"

\* the step is a step of a task of item j: a sampling tick or its resumption,
\* an evaluation, or the resumption of an evaluation after its callback
TaskOf(j) ==
    \/ Len(pendingSet'[j]) # Len(pendingSet[j])
    \/ Evaluates /\ lastEval'.item = j
    \/ Completes /\ done'[Len(done')].item = j

\* the step is a record step of item i, or an evaluation of an alert of item i
\* whose callback was called or has returned
OwnChange(i) ==
    \/ Records(i)
    \/ Evaluates /\ lastEval'.outcome = "called" /\ lastEval'.item = i
    \/ Completes /\ done'[Len(done')].item = i

\* C26: the statistics record of an item changes only in a record step of the
\* item's own sampling task or through the callback of one of its own alerts;
\* an evaluation with a false verdict, a call of get, and every step of a task
\* of another item leave the item's statistics record, its configuration and
\* its alerts as they are.
C26_OnlyOwnTasksChange ==
    [][\A i \in DOMAIN items :
          /\ db'[i] # db[i] => OwnChange(i)
          /\ (Evaluates /\ lastEval'.outcome = "quiet") =>
                db'[i] = db[i] /\ items'[i] = items[i]
          /\ Gets => db'[i] = db[i] /\ items'[i] = items[i]
          /\ \A j \in DOMAIN items \ {i} :
                TaskOf(j) => db'[i] = db[i] /\ items'[i] = items[i]]_vars

\* one item's record has been replaced by its callback and sampled, the other
\* item's alert has raised its threshold, and get has been called
C26_Witness ==
    /\ lastCall.op = "get"
    /\ db["ram_usage"].max = 50
    /\ db["disk"].max = 100
    /\ db["disk"].now = Num(5)
    /\ items["disk"].alerts["busy"].value = Num(11)
    /\ items["ram_usage"].alerts["reset"].value = Num(50)

\* C31: an input whose items are valid and of which one gives no alerts is
\* accepted by the constructor, and that item has no alerts.
C31_OmittedAlertsAccepted ==
    (/\ lastCall.op = "new"
     /\ \A k \in DOMAIN lastCall.arg : ~Defective(lastCall.arg[k])
     /\ \E k \in DOMAIN lastCall.arg : "alerts" \notin DOMAIN lastCall.arg[k])
       => /\ lastCall.result = "MonitorJS"
          /\ process = "running"
          /\ \A k \in DOMAIN lastCall.arg :
                "alerts" \notin DOMAIN lastCall.arg[k] =>
                   DOMAIN items[lastCall.arg[k].name].alerts = {}

\* the engine is constructed and start has not been called
Idle == process = "running" /\ DOMAIN intervalIds = {}

\* the record of an item that has not been sampled: empty buffer, absent
\* scalars, and the limits its configuration gives or the defaults
IdleRecord(config) ==
    [buffer     |-> <<>>,
     now        |-> Null,
     avg        |-> Null,
     sum        |-> Null,
     nowPct     |-> Null,
     avgPct     |-> Null,
     bufferSize |-> IF "bufferSize" \in DOMAIN config
                    THEN config.bufferSize ELSE DefaultBufferSize,
     max        |-> IF "max" \in DOMAIN config THEN config.max ELSE DefaultMax,
     min        |-> IF "min" \in DOMAIN config THEN config.min ELSE DefaultMin]

\* C30: while the engine is idle there is no scheduled task, no sampling
\* function, predicate or callback has been invoked, and get gives for every
\* configured item its initial record.
C30_IdleIsInert ==
    Idle =>
       /\ timers = {}
       /\ pendingCb = {} /\ done = <<>> /\ lastEval = NoEval
       /\ \A i \in DOMAIN items : pendingSet[i] = <<>> /\ recorded[i] = <<>>
       /\ \A k \in DOMAIN PairInput :
             /\ get(PairInput[k].name) = IdleRecord(PairInput[k])
             /\ (lastCall.op = "get" /\ lastCall.arg = PairInput[k].name)
                   => lastCall.result = IdleRecord(PairInput[k])

\* get has been called on the idle engine for the item that configures no
\* limits and returned the record with the default limits
C30_Witness ==
    /\ Idle
    /\ lastCall.op = "get"
    /\ lastCall.arg = "disk"
    /\ lastCall.result.buffer = <<>>
    /\ lastCall.result.now = Null
    /\ lastCall.result.bufferSize = DefaultBufferSize
    /\ lastCall.result.max = DefaultMax

(***************************************************************************)
(* A callback that returns an item with other alerts.                      *)
(***************************************************************************)
\* an item with two alerts; the callback of the first returns an item
\* configuration that carries the first alert only
PruneInput ==
    << RamItem(<<AlertWith("prune", Kind("more"), 50, "pruneItem"),
                 Alert("keep", Kind("less"), 50)>>) >>

PruneInit == InitWith(PruneInput)

PruneNext ==
    \/ Start
    \/ \E t \in timers : SetTick(t)
    \/ \E i \in DOMAIN items : \E k \in DOMAIN pendingSet[i] :
          \E v \in CallYields(pendingSet[i][k]) : SetResume(i, k, v)
    \/ \E t \in timers : Check(t)
    \/ \E call \in pendingCb : CheckResume(call)

PruneSpec == PruneInit /\ [][PruneNext]_vars

\* the names of the configurations in a sequence
NamesIn(configs) == {configs[k].name : k \in DOMAIN configs}

\* C27: in every reachable state the item names are those given at
\* construction and every item's alert names are those it was given at
\* construction, whatever the callbacks have returned.
C27_NamesFixed ==
    /\ DOMAIN items = NamesIn(PruneInput)
    /\ DOMAIN db = NamesIn(PruneInput)
    /\ \A k \in DOMAIN PruneInput :
          DOMAIN items[PruneInput[k].name].alerts = NamesIn(PruneInput[k].alerts)

(***************************************************************************)
(* start() called again, and a period given twice.                         *)
(***************************************************************************)
\* an item whose times name the same period twice
DupInput ==
    << [name |-> "ram", setter |-> "getRAMUsage",
        alerts |-> <<Alert("busy", Kind("more"), 50), Alert("idle", Kind("less"), 50)>>,
        times |-> <<Time("1_s", <<1>>, "s"), Time("1_s", <<1>>, "s")>>] >>

DupInit == InitWith(DupInput)

\* the timer a later setInterval call of the same line creates: another timer
\* with the same key; idx tells the calls apart
Again(t) == [t EXCEPT !.idx = @ + 1 + Len(items[t.item].times)]

\* start() called a second time: run() calls setInterval again for every item
\* and assigns the new handles over the old ones; no timer is cleared
StartAgain ==
    /\ process = "running"
    /\ timers # {}
    /\ \A t \in timers : t.idx <= Len(items[t.item].times)
    /\ LET fresh == {Again(t) : t \in UNION {RunTimers(i) : i \in DOMAIN items}}
       IN  /\ timers' = timers \cup fresh
           /\ intervalIds' =
                 [key \in {t.key : t \in fresh} |->
                    Handle(CHOOSE t \in fresh :
                              /\ t.key = key
                              /\ \A u \in fresh : u.key = key => u.idx <= t.idx)]
    /\ lastEval' = NoEval
    /\ lastCall' = NoCall
    /\ UNCHANGED <<items, db, pendingSet, pendingCb, recorded, done, process>>

DupNext ==
    \/ Start
    \/ StartAgain
    \/ \E t \in timers : SetTick(t)
    \/ \E i \in DOMAIN items : \E k \in DOMAIN pendingSet[i] :
          \E v \in CallYields(pendingSet[i][k]) : SetResume(i, k, v)
    \/ \E t \in timers : Check(t)

DupSpec == DupInit /\ [][DupNext]_vars

\* C32: there is at most one live sampling task per item and at most one live
\* evaluation task per item, alert and period, and the bookkeeping holds the
\* handle of every live task.
C32_TaskIdentitiesUnique ==
    /\ \A t, u \in timers :
          (t.kind = u.kind /\ t.item = u.item /\ t.alert = u.alert /\ t.ms = u.ms)
             => t = u
    /\ \A t \in timers :
          t.key \in DOMAIN intervalIds /\ intervalIds[t.key] = Handle(t)

(***************************************************************************)
(* A callback that returns an item and an alert together.                  *)
(***************************************************************************)
BothInput ==
    << RamItem(<<AlertWith("both", Kind("more"), 50, "swapAndTune"),
                 Alert("low", Kind("less"), 50)>>) >>

BothInit == InitWith(BothInput)

BothNext ==
    \/ Start
    \/ \E t \in timers : SetTick(t)
    \/ \E i \in DOMAIN items : \E k \in DOMAIN pendingSet[i] :
          \E v \in CallYields(pendingSet[i][k]) : SetResume(i, k, v)
    \/ \E t \in timers : Check(t)
    \/ \E call \in pendingCb : CheckResume(call)

BothSpec == BothInit /\ [][BothNext]_vars

\* C34: when a callback has returned an item and an alert, the stored item is
\* the returned item except that, under the name of the evaluated alert, its
\* alert map holds the returned alert.
C34_ItemThenAlert ==
    [][((Completes \/ ReturnsAtOnce)
          /\ "item" \in DOMAIN StepReturn /\ "alertObject" \in DOMAIN StepReturn) =>
         \A n \in DOMAIN items : \A a \in DOMAIN StepReturn.item.alerts \cup {StepName} :
            (n = StepItem) =>
               /\ items'[n].setter = StepReturn.item.setter
               /\ DOMAIN items'[n].alerts = DOMAIN StepReturn.item.alerts \cup {StepName}
               /\ items'[n].alerts[a] = IF a = StepName THEN StepReturn.alertObject
                                        ELSE StepReturn.item.alerts[a]]_vars

\* the returned item is stored with the returned alert in its alert map, in
\* place of the alert of that name the returned item carried
C34_Witness ==
    /\ done # <<>>
    /\ items["ram_usage"].setter = "getSwapUsage"
    /\ items["ram_usage"].alerts["both"] = BothAlert
    /\ BothItem.alerts["both"] # BothAlert
    /\ items["ram_usage"].alerts["low"] = BothItem.alerts["low"]

(***************************************************************************)
(* A record replaced while a sampling function is suspended.               *)
(***************************************************************************)
\* an item whose callback returns a pristine statistics record together with
\* an item that has another sampling function
RaceInput ==
    << RamItem(<<AlertWith("renew", Kind("more"), 50, "renew")>>) >>

RaceInit == InitWith(RaceInput)

RaceNext ==
    \/ Start
    \/ \E t \in timers : SetTick(t)
    \/ \E i \in DOMAIN items : \E k \in DOMAIN pendingSet[i] :
          \E v \in CallYields(pendingSet[i][k]) : SetResume(i, k, v)
    \/ \E t \in timers : Check(t)
    \/ \E call \in pendingCb : CheckResume(call)

RaceSpec == RaceInit /\ [][RaceNext]_vars

\* the previous now as the record step pushes it: nothing before the first
\* sample
PrevNow(stats) == IF stats.now = Null THEN <<>> ELSE <<stats.now>>

\* C35: a record step works on the record stored for the item when the
\* sampling function has returned, also when that record is a replacement
\* stored while the function was suspended: the limits are those of the
\* stored record, and the buffer is the stored buffer, without its first entry
\* or whole, followed by the stored now and the sample.
C35_RecordsIntoStoredRecord ==
    [][\A i \in DOMAIN items :
          Records(i) =>
             \E v \in UNION {CallYields(pendingSet[i][k]) : k \in DOMAIN pendingSet[i]} :
                /\ db'[i].bufferSize = db[i].bufferSize
                /\ db'[i].max = db[i].max
                /\ db'[i].min = db[i].min
                /\ db'[i].now = Num(v)
                /\ \/ db'[i].buffer = db[i].buffer \o PrevNow(db[i]) \o <<Num(v)>>
                   \/ /\ db[i].buffer # <<>>
                      /\ db'[i].buffer =
                            Tail(db[i].buffer) \o PrevNow(db[i]) \o <<Num(v)>>]_vars

\* the callback's pristine record and its item with another sampling function
\* are stored, and the record holds one sample, 75: a value of the first
\* sampling function, whose call was made before the replacement
C35_Witness ==
    /\ Len(done) = 1
    /\ items["ram_usage"].setter = "getSwapUsage"
    /\ 75 \notin SetterYields("getSwapUsage")
    /\ db["ram_usage"].buffer = <<Num(75)>>
    /\ db["ram_usage"].now = Num(75)
    /\ db["ram_usage"].max = ResetStats.max
    /\ db["ram_usage"].bufferSize = ResetStats.bufferSize

\* a callback of item i is suspended
Suspended(i) == \E call \in pendingCb : call.item = i

\* C36: a sample recorded while a callback of the item is suspended goes into
\* the stored record and leaves the callback suspended; when the callback
\* completes, the stored record and its samples stay as they are if it returned
\* no statistics record, and the stored record is exactly the returned one,
\* whatever was recorded meanwhile, if it returned one.
C36_SampleDuringCallback ==
    [][/\ \A i \in DOMAIN items :
            (Records(i) /\ Suspended(i)) =>
               /\ pendingCb' = pendingCb
               /\ done' = done
               /\ Len(recorded'[i]) = Len(recorded[i]) + 1
               /\ db'[i].now = Num(Last(recorded'[i]))
       /\ Completes =>
            LET call == done'[Len(done')]
            IN  IF "db" \in DOMAIN call.ret
                THEN /\ db'[call.item] = call.ret.db
                     /\ recorded'[call.item] = SamplesOf(call.ret.db)
                ELSE /\ db'[call.item] = db[call.item]
                     /\ recorded'[call.item] = recorded[call.item]]_vars

\* the callback notify, called when now was above 50 and returning nothing, has
\* just completed and now is 0: the sample 0 was recorded while it was
\* suspended and is the stored now after its completion
C36_Witness ==
    /\ lastCall.op = "resumed"
    /\ lastCall.result = "notify"
    /\ Len(done) = 1
    /\ done[1].alert = "notify"
    /\ done[1].ret = <<>>
    /\ db["ram_usage"].now = Num(0)
    /\ Last(recorded["ram_usage"]) = 0
    /\ Len(db["ram_usage"].buffer) >= 1

\* C37: a sampling tick starts an invocation whatever invocations of the item
\* are suspended, and these stay suspended; a completion ends exactly one
\* suspended invocation, whichever it is, and records exactly one sample, the
\* value of that invocation, which becomes now.
C37_TicksDoNotWait ==
    [][\A i \in DOMAIN items :
          /\ Samples(i) =>
                /\ SubSeq(pendingSet'[i], 1, Len(pendingSet[i])) = pendingSet[i]
                /\ Len(pendingSet'[i]) = Len(pendingSet[i]) + 1
                /\ recorded' = recorded
                /\ db' = db
          /\ Records(i) =>
                \E k \in DOMAIN pendingSet[i] :
                   \E v \in CallYields(pendingSet[i][k]) :
                      /\ pendingSet'[i] = Without(pendingSet[i], k)
                      /\ recorded'[i] = Append(recorded[i], v)
                      /\ db'[i].now = Num(v)]_vars

\* the first invocation yields 25 and every later one 75: 75 was recorded
\* before 25, so the second invocation started while the first was suspended
\* and completed first, and now is the value of the first
C37_Witness ==
    /\ "temp" \in DOMAIN db
    /\ recorded["temp"] = <<75, 25>>
    /\ db["temp"].now = Num(25)
    /\ pendingSet["temp"] = <<>>

\* C38: an evaluation whose verdict is true calls the alert's callback whatever
\* calls are suspended, those of the same alert included: a suspending callback
\* adds one suspended call with its own return value and leaves the others
\* suspended; and a completion ends exactly that call and stores what that
\* call returned.
C38_EvaluationsDoNotWait ==
    [][/\ (/\ Evaluates
           /\ lastEval'.outcome = "called"
           /\ CallbackSuspends(StepAlert.function)) =>
             /\ pendingCb \subseteq pendingCb'
             /\ Cardinality(pendingCb') = Cardinality(pendingCb) + 1
             /\ \A call \in pendingCb' \ pendingCb :
                   /\ call.item = lastEval'.item
                   /\ call.alert = lastEval'.alert
                   /\ call.ret = OrEmpty(CallbackReturns(StepAlert.function))
       /\ Completes =>
             LET call == done'[Len(done')]
             IN  /\ call \in pendingCb
                 /\ pendingCb' = pendingCb \ {call}
                 /\ "db" \in DOMAIN call.ret => db'[call.item] = call.ret.db
                 /\ ("item" \in DOMAIN call.ret /\ "alertObject" \notin DOMAIN call.ret)
                       => items'[call.item] = call.ret.item
                 /\ "alertObject" \in DOMAIN call.ret =>
                       items'[call.item].alerts[call.alert] = call.ret.alertObject]_vars

\* two calls of the callback of the alert tune have completed, the second call
\* first: the first call was suspended when the second was made, and the
\* alert stored is the one they return
C38_Witness ==
    /\ lastCall.op = "resumed"
    /\ lastCall.result = "tune"
    /\ Len(done) = 2
    /\ done[1].alert = "tune"
    /\ done[2].alert = "tune"
    /\ done[1].seq = 2
    /\ done[2].seq = 1
    /\ items["ram_usage"].alerts["tune"] = TunedAlert

(***************************************************************************)
(* timeConverter called on its own.                                        *)
(***************************************************************************)
\* the digits the durations are written with
Digits == {0, 1, 2, 5}

\* the parts after the "_" of the durations: the three units, two other
\* units, and none (a string without "_")
Marks == {"s", "m", "h", "d", "ms", ""}

\* the digit strings of 1..n digits
DigitStrings(n) == UNION {[1..len -> Digits] : len \in 1..n}

\* the durations handed to timeConverter
Durations ==
    {Time("", digits, mark) : digits \in DigitStrings(MaxDigits), mark \in Marks}

\* an engine of no items, on which timeConverter is called
ConvInit == InitWith(<<>>)

\* timeConverter(time), called by the owner of the engine
Convert(time) ==
    /\ process = "running"
    /\ lastCall' = [op |-> "timeConverter", arg |-> time,
                    result |-> timeConverter(time)]
    /\ UNCHANGED <<items, db, intervalIds, timers, pendingSet, pendingCb, recorded,
                   lastEval, done, process>>

ConvNext == \E time \in Durations : Convert(time)

ConvSpec == ConvInit /\ [][ConvNext]_vars

\* the number a string of decimal digits denotes, read from the left
RECURSIVE Denotes(_, _)
Denotes(digits, sofar) ==
    IF digits = <<>> THEN sofar
    ELSE Denotes(Tail(digits), 10 * sofar + Head(digits))

\* C24: the conversion of <n>_<unit> gives n * 1000 for s, n * 60000 for m,
\* n * 3600000 for h, and 0 for every other unit.
C24_UnitConversion ==
    lastCall.op = "timeConverter" =>
        LET n == Denotes(lastCall.arg.digits, 0)
            unit == lastCall.arg.mark
        IN  lastCall.result =
              CASE unit = "s" -> n * 1000
                [] unit = "m" -> n * 60000
                [] unit = "h" -> n * 3600000
                [] OTHER      -> 0

\* 25 hours have been converted
C24_Witness ==
    /\ lastCall.op = "timeConverter"
    /\ lastCall.arg.digits = <<2, 5>>
    /\ lastCall.arg.mark = "h"
    /\ lastCall.result = 90000000

====
